---- MODULE Spec2Model ----
(***************************************************************************)
(* Model of package ratata (src/ratata.go): a token bucket (RatataBucket)  *)
(* with refillRatata / Allow, and the package-level registry userBuckets   *)
(* used by AllowUser.  Every statement that writes shared state is one     *)
(* step.  A Lock() is one step with the reads that follow it up to the     *)
(* first branch, and a deferred Unlock() is one step with the statement    *)
(* before it: nothing another goroutine does can come between acquiring a  *)
(* mutex and reading what it protects, or between the last write and the   *)
(* release.                                                                *)
(*                                                                         *)
(* Goroutines have no identity in Go and a sync.Mutex has no owner, so the *)
(* calls in flight are a bag of frames (`calls`), one per goroutine, and a *)
(* mutex is Unlocked or Locked.                                            *)
(*                                                                         *)
(* Time is a natural-number clock `clock` (time.Now()); one unit is one    *)
(* clock tick, and a refillRate is a number of ticks.                      *)
(***************************************************************************)
EXTENDS Integers, Sequences, FiniteSets, Bags, TLC

\* ---- bounds of the model ------------------------------------------------
NumThreads == 2
MaxCapacity == 2
MaxRate == 2
MaxTime == 2
MaxCalls == 3
MaxLongTime == 4

\* ---- the README's basic-usage program, in ticks of 100ms -------------------
ReadmeCapacity == 5
Second == 10
SleepTicks == 2
ReadmeCalls == 10

Users == {"a", "b"}
UserRank == [a |-> 1, b |-> 2]
NoUser == "<none>"
Nil == 0
Unlocked == 0
Locked == 1

VARIABLES
    clock,        \* time.Now()
    heap,         \* allocated RatataBucket objects; an address is an index
    userBuckets,  \* the package-level map userID -> *RatataBucket (Nil = absent)
    bucketMu,     \* the package-level mutex
    calls,        \* the frames of the goroutines at work (position, receiver, locals)
    hist,         \* history: per address, creation time, owner and decision counts
    started,      \* history: the number of calls made so far
    tracing,      \* whether each call's frame keeps how its refill found the bucket
    iter,         \* README main: the loop counter i
    out,          \* README main: the lines printed
    lin           \* history: what a fused Allow can have done with the calls so far

vars == <<clock, heap, userBuckets, bucketMu, calls, hist, started, tracing, iter, out, lin>>

\* ---- helpers ------------------------------------------------------------
Abs(x) == IF x < 0 THEN -x ELSE x

Min(x, y) == IF x < y THEN x ELSE y

\* Go's integer division truncates toward zero (b # 0).
GoDiv(a, b) ==
    IF (a >= 0) = (b > 0) THEN Abs(a) \div Abs(b) ELSE -(Abs(a) \div Abs(b))

\* sync.Mutex: Lock() proceeds only when the mutex is not held.
CanLockNoMutex(m) == TRUE
CanLock(m) == m = Unlocked

\* sync.Mutex: Unlock() leaves the mutex not held.
UnlockMissing(m) == m
Unlock(m) == Unlocked

\* ---- RatataBucket ---------------------------------------------------------
NewRatataBucketEmpty(capacity, refillRate) ==
    [capacity |-> capacity, tokens |-> 0, refillRate |-> refillRate,
     lastRefill |-> clock, mu |-> Unlocked]
NewRatataBucket(capacity, refillRate) ==
    [capacity |-> capacity, tokens |-> capacity, refillRate |-> refillRate,
     lastRefill |-> clock, mu |-> Unlocked]

\* elapsed / rb.refillRate with rb.refillRate = 0
DivideByZero(refillRate) == refillRate = 0

\* newTokens := int(elapsed / rb.refillRate)
NewTokensOne(elapsed, refillRate) == IF elapsed >= refillRate THEN 1 ELSE 0
NewTokens(elapsed, refillRate) == GoDiv(elapsed, refillRate)

\* if newTokens > 0 { ... }
HasNewTokensAlways(newTokens) == newTokens >= 0
HasNewTokens(newTokens) == newTokens > 0

\* if rb.tokens > rb.capacity { rb.tokens = rb.capacity }
ClampMissing(b) == b
Clamp(b) == IF b.tokens > b.capacity THEN [b EXCEPT !.tokens = b.capacity] ELSE b

\* rb.lastRefill = now
SetLastRefillMissing(b, now) == b
SetLastRefill(b, now) == [b EXCEPT !.lastRefill = now]

\* if rb.tokens > 0
HasTokenOffByOne(b) == b.tokens >= 0
HasToken(b) == b.tokens > 0

\* userBuckets[userID] == nil
IsAbsentAlways(ub, userID) == TRUE
IsAbsent(ub, userID) == ub[userID] = Nil

\* userBucket := userBuckets[userID]
LookupAnyUser(ub, userID) == ub[CHOOSE u \in Users : ub[u] # Nil]
LookupTemplate(ub, userID) == 1
Lookup(ub, userID) == ub[userID]

\* rb, the bucket AllowUser is called on: its capacity and refillRate make the
\* bucket of a new identity
ReceiverFirst(h, rb) == h[1]
Receiver(h, rb) == h[rb]

\* ---- the fused Allow --------------------------------------------------------
\* Allow with refillRatata's body and the check-and-decrement in one critical
\* section, run at time now on bucket b: the bucket it leaves and what it returns
FusedAllow(b, now) ==
    LET newTokens == NewTokens(now - b.lastRefill, b.refillRate)
        r == IF HasNewTokens(newTokens)
             THEN SetLastRefill(Clamp([b EXCEPT !.tokens = @ + newTokens]), now)
             ELSE b
    IN IF HasToken(r)
       THEN [b |-> [r EXCEPT !.tokens = @ - 1], ret |-> TRUE]
       ELSE [b |-> r, ret |-> FALSE]

\* What the fused Allow can have made of the calls so far is a set of
\* outcomes: the bucket, the calls invoked that have not taken effect yet
\* (pend), and the results of those that have but have not returned (res).
LinOff == [on |-> FALSE, cfgs |-> {}]

LinStart(b) == [on |-> TRUE, cfgs |-> {[b |-> b, pend |-> {}, res |-> {}]}]

\* one more pending call takes effect at time now, in every possible way
LinStep(S, now) ==
    S \cup UNION {{[b |-> FusedAllow(o.b, now).b,
                    pend |-> o.pend \ {j},
                    res |-> o.res \cup {<<j, FusedAllow(o.b, now).ret>>}] : j \in o.pend}
                  : o \in S}

\* the pending calls take effect at time now, any number of them in any order
RECURSIVE LinClose(_, _)
LinClose(S, now) ==
    IF LinStep(S, now) = S THEN S ELSE LinClose(LinStep(S, now), now)

\* call j is invoked at time now
LinInvoke(l, j, now) ==
    IF l.on
    THEN [l EXCEPT !.cfgs = LinClose({[o EXCEPT !.pend = @ \cup {j}] : o \in @}, now)]
    ELSE l

\* the clock reaches now
LinTick(l, now) == IF l.on THEN [l EXCEPT !.cfgs = LinClose(@, now)] ELSE l

\* call j returns ret
LinReturn(l, j, ret) ==
    IF l.on
    THEN [l EXCEPT !.cfgs = {[o EXCEPT !.res = @ \ {<<j, ret>>}] :
                                o \in {x \in @ : <<j, ret>> \in x.res}}]
    ELSE l

\* ---- frames and history ---------------------------------------------------
\* A frame holds the position of a goroutine (pc), the receiver and arguments
\* of the call it is in, the locals of refillRatata (now, elapsed, newTokens),
\* the value Allow returns, where the call returns to ("exit": the goroutine
\* ends with the call), and (main only) when its Sleep ends.  prevEval,
\* lrBefore, tokBefore, tokAfter and lrAfter are history, kept when tracing: the
\* bucket as the call's refillRatata found it and left it, and the time of the
\* refillRatata before.  Without tracing the locals die when refillRatata returns.
NewFrame ==
    [pc |-> "exit", op |-> "none", rb |-> Nil, userID |-> NoUser, self |-> Nil,
     now |-> 0, elapsed |-> 0, newTokens |-> 0, ret |-> FALSE, retpc |-> "exit",
     wake |-> 0, id |-> 0,
     prevEval |-> 0, lrBefore |-> 0, tokBefore |-> 0, tokAfter |-> 0, lrAfter |-> 0]

\* the goroutines at work
InFlight == BagToSet(calls)

\* the goroutine with frame c moves on, its frame becoming n
Go(c, n) == (calls (-) SetToBag({c})) (+) SetToBag({n})

\* the goroutine with frame c ends
Exit(c) == calls (-) SetToBag({c})

\* what a call leaves behind in its caller: the returned value
Returned(f) == [NewFrame EXCEPT !.pc = f.retpc, !.ret = f.ret]

\* per bucket: when and for whom it was built, how many Allow calls on it decided
\* true and false, the tokens refills credited to it (net of the clamp), and the
\* time of the latest refillRatata on it (when tracing)
NewHist(owner) ==
    [at |-> clock, owner |-> owner, nTrue |-> 0, nFalse |-> 0, credited |-> 0,
     lastEval |-> IF tracing THEN clock ELSE 0, lost |-> 0]

\* the frame as refillRatata leaves it for Allow, the bucket being b
AfterRefill(f, b) ==
    IF tracing
    THEN [f EXCEPT !.pc = "al_lock", !.tokAfter = b.tokens, !.lrAfter = b.lastRefill]
    ELSE [f EXCEPT !.pc = "al_lock", !.now = 0, !.elapsed = 0, !.newTokens = 0]

\* the buckets built by the program itself, not by AllowUser
Templates == {a \in 1..Len(heap) : hist[a].owner = NoUser}

\* ---- initial state --------------------------------------------------------
InitCommon ==
    /\ clock = 0
    /\ userBuckets = [u \in Users |-> Nil]
    /\ bucketMu = Unlocked
    /\ started = 0
    /\ iter = 0
    /\ out = <<>>

\* One template bucket built by NewRatataBucket with positive arguments.
InitBucket ==
    /\ InitCommon
    /\ calls = EmptyBag
    /\ \E capacity \in 1..MaxCapacity, refillRate \in 1..MaxRate :
          heap = <<NewRatataBucket(capacity, refillRate)>>
    /\ hist = <<NewHist(NoUser)>>

Init == tracing = FALSE /\ lin = LinOff /\ InitBucket

InitSeq == tracing = TRUE /\ lin = LinOff /\ InitBucket

\* ---- the clock ------------------------------------------------------------
Tick ==
    /\ clock < MaxTime
    /\ clock' = clock + 1
    /\ UNCHANGED <<heap, userBuckets, bucketMu, calls, hist, started, tracing, iter, out, lin>>

\* time passes, over a span long enough for one and a half refill intervals
\* followed by another half
TickLong ==
    /\ clock < MaxLongTime
    /\ clock' = clock + 1
    /\ lin' = LinTick(lin, clock')
    /\ UNCHANGED <<heap, userBuckets, bucketMu, calls, hist, started, tracing, iter, out>>

\* ---- callers --------------------------------------------------------------
\* a goroutine calls rb.Allow(), at most n goroutines being at work
CallAllow(n) ==
    /\ BagCardinality(calls) < n
    /\ started < MaxCalls
    /\ started' = started + 1
    /\ \E rb \in Templates :
          calls' = calls (+) SetToBag({[NewFrame EXCEPT !.pc = "rf_lock", !.op = "Allow",
                                                        !.rb = rb, !.self = rb,
                                                        !.id = IF lin.on THEN started' ELSE 0]})
    /\ lin' = LinInvoke(lin, started', clock)
    /\ UNCHANGED <<clock, heap, userBuckets, bucketMu, hist, tracing, iter, out>>

\* Identities are interchangeable, so they are named in the order of their
\* first use: "b" is not used before "a".
Used == {u \in Users : userBuckets[u] # Nil \/ \E c \in InFlight : c.userID = u}

NextUsers == {u \in Users : \A v \in Users : UserRank[v] < UserRank[u] => v \in Used}

\* a goroutine calls rb.AllowUser(userID), at most n goroutines being at work
CallAllowUser(n) ==
    /\ BagCardinality(calls) < n
    /\ started < MaxCalls
    /\ started' = started + 1
    /\ \E rb \in Templates, userID \in NextUsers :
          calls' = calls (+) SetToBag({[NewFrame EXCEPT !.pc = "au_lock", !.op = "AllowUser",
                                                        !.rb = rb, !.userID = userID]})
    /\ UNCHANGED <<clock, heap, userBuckets, bucketMu, hist, tracing, iter, out, lin>>

\* ---- AllowUser ------------------------------------------------------------
\* bucketMu.Lock(); if userBuckets[userID] == nil ...;
\* userBucket := userBuckets[userID]; return userBucket.Allow()
AULock ==
    \E c \in InFlight :
        /\ c.pc = "au_lock"
        /\ CanLock(bucketMu)
        /\ bucketMu' = Locked
        /\ calls' = IF IsAbsent(userBuckets, c.userID)
                    THEN Go(c, [c EXCEPT !.pc = "au_new"])
                    ELSE Go(c, [c EXCEPT !.pc = "rf_lock", !.self = Lookup(userBuckets, c.userID)])
        /\ UNCHANGED <<clock, heap, userBuckets, hist, started, tracing, iter, out, lin>>

\* userBuckets[userID] = NewRatataBucket(rb.capacity, rb.refillRate);
\* userBucket := userBuckets[userID]; return userBucket.Allow()
AUNew ==
    \E c \in InFlight :
        /\ c.pc = "au_new"
        /\ heap' = Append(heap, NewRatataBucket(Receiver(heap, c.rb).capacity,
                                                Receiver(heap, c.rb).refillRate))
        /\ hist' = Append(hist, NewHist(c.userID))
        /\ userBuckets' = [userBuckets EXCEPT ![c.userID] = Len(heap) + 1]
        /\ calls' = Go(c, [c EXCEPT !.pc = "rf_lock", !.self = Lookup(userBuckets', c.userID)])
        /\ UNCHANGED <<clock, bucketMu, started, tracing, iter, out, lin>>

\* ---- refillRatata ---------------------------------------------------------
\* rb.mu.Lock(); now := time.Now(); elapsed := now.Sub(rb.lastRefill);
\* newTokens := int(elapsed / rb.refillRate); if newTokens > 0;
\* with no new tokens refillRatata returns (the deferred rb.mu.Unlock()).
\* Dividing by a refillRate of 0 panics (Go: integer divide by zero): the
\* deferred rb.mu.Unlock() runs, and the deferred bucketMu.Unlock() of
\* AllowUser, and the call never returns a value.
RFLock ==
    \E c \in InFlight :
        /\ c.pc = "rf_lock"
        /\ CanLock(heap[c.self].mu)
        /\ LET b == heap[c.self]
               elapsed == clock - b.lastRefill
               newTokens == NewTokens(elapsed, b.refillRate)
               locals == [c EXCEPT !.now = clock, !.elapsed = elapsed, !.newTokens = newTokens]
               seen == IF tracing
                       THEN [locals EXCEPT !.prevEval = hist[c.self].lastEval,
                                           !.lrBefore = b.lastRefill, !.tokBefore = b.tokens]
                       ELSE locals
           IN IF DivideByZero(b.refillRate)
              THEN /\ heap' = [heap EXCEPT ![c.self].mu = Unlocked]
                   /\ bucketMu' = IF c.op = "AllowUser" THEN Unlocked ELSE bucketMu
                   /\ calls' = Go(c, [c EXCEPT !.pc = "panic"])
              ELSE IF HasNewTokens(newTokens)
              THEN /\ heap' = [heap EXCEPT ![c.self].mu = Locked]
                   /\ bucketMu' = bucketMu
                   /\ calls' = Go(c, [seen EXCEPT !.pc = "rf_add"])
              ELSE /\ heap' = [heap EXCEPT ![c.self].mu = Unlock(@)]
                   /\ bucketMu' = bucketMu
                   /\ calls' = Go(c, AfterRefill(seen, b))
        /\ hist' = [hist EXCEPT ![c.self].lastEval = IF tracing THEN clock ELSE 0]
        /\ UNCHANGED <<clock, userBuckets, started, tracing, iter, out, lin>>

\* rb.tokens += newTokens
RFAdd ==
    \E c \in InFlight :
        /\ c.pc = "rf_add"
        /\ heap' = [heap EXCEPT ![c.self].tokens = @ + c.newTokens]
        /\ hist' = [hist EXCEPT ![c.self].credited = @ + c.newTokens]
        /\ calls' = Go(c, [c EXCEPT !.pc = "rf_clamp"])
        /\ UNCHANGED <<clock, userBuckets, bucketMu, started, tracing, iter, out, lin>>

\* if rb.tokens > rb.capacity { rb.tokens = rb.capacity }; rb.lastRefill = now;
\* refillRatata returns (the deferred rb.mu.Unlock())
RFClamp ==
    \E c \in InFlight :
        /\ c.pc = "rf_clamp"
        /\ heap' = [heap EXCEPT ![c.self] =
                          [SetLastRefill(Clamp(@), c.now) EXCEPT !.mu = Unlock(@)]]
        /\ hist' = [hist EXCEPT ![c.self].credited =
                          @ - (heap[c.self].tokens - heap'[c.self].tokens),
                                 ![c.self].lost =
                          IF tracing THEN @ + (heap[c.self].tokens - heap'[c.self].tokens)
                                     ELSE 0]
        /\ calls' = Go(c, AfterRefill(c, heap'[c.self]))
        /\ UNCHANGED <<clock, userBuckets, bucketMu, started, tracing, iter, out, lin>>

\* ---- Allow ----------------------------------------------------------------
\* rb.mu.Lock(); if rb.tokens > 0 ... else return false
ALLock ==
    \E c \in InFlight :
        /\ c.pc = "al_lock"
        /\ CanLock(heap[c.self].mu)
        /\ heap' = [heap EXCEPT ![c.self].mu = Locked]
        /\ IF HasToken(heap[c.self])
           THEN /\ calls' = Go(c, [c EXCEPT !.pc = "al_dec"])
                /\ hist' = hist
           ELSE /\ calls' = Go(c, [c EXCEPT !.pc = "al_unlock", !.ret = FALSE])
                /\ hist' = [hist EXCEPT ![c.self].nFalse = @ + 1]
        /\ UNCHANGED <<clock, userBuckets, bucketMu, started, tracing, iter, out, lin>>

\* rb.tokens--; return true
ALDec ==
    \E c \in InFlight :
        /\ c.pc = "al_dec"
        /\ heap' = [heap EXCEPT ![c.self].tokens = @ - 1]
        /\ hist' = [hist EXCEPT ![c.self].nTrue = @ + 1]
        /\ calls' = Go(c, [c EXCEPT !.pc = "al_unlock", !.ret = TRUE])
        /\ UNCHANGED <<clock, userBuckets, bucketMu, started, tracing, iter, out, lin>>

\* Allow returns (the deferred rb.mu.Unlock()); inside AllowUser, AllowUser
\* returns with it (the deferred bucketMu.Unlock())
ALUnlock ==
    \E c \in InFlight :
        /\ c.pc = "al_unlock"
        /\ heap' = [heap EXCEPT ![c.self].mu = Unlock(@)]
        /\ bucketMu' = IF c.op = "AllowUser" THEN Unlock(bucketMu) ELSE bucketMu
        /\ calls' = IF c.retpc = "exit" THEN Exit(c) ELSE Go(c, Returned(c))
        /\ lin' = LinReturn(lin, c.id, c.ret)
        /\ UNCHANGED <<clock, userBuckets, hist, started, tracing, iter, out>>

\* ---- specifications -------------------------------------------------------
\* the steps inside a call, the same for every caller
Body ==
    \/ AULock \/ AUNew
    \/ RFLock \/ RFAdd \/ RFClamp
    \/ ALLock \/ ALDec \/ ALUnlock

\* Spec: up to NumThreads goroutines at a time call Allow and AllowUser.
Next ==
    \/ Tick
    \/ CallAllow(NumThreads)
    \/ CallAllowUser(NumThreads)
    \/ Body

Spec == Init /\ [][Next]_vars

\* SpecFair: the calls of Spec under a scheduler that keeps running a goroutine
\* that can take a step (the Go scheduler never parks all runnable goroutines).
\* The template holds one token and credits one per tick, so that calls take
\* every path (token, no token, credit, clamp): which locks a call takes does
\* not depend on the configuration.
InitFair ==
    /\ tracing = FALSE
    /\ lin = LinOff
    /\ InitCommon
    /\ calls = EmptyBag
    /\ heap = <<NewRatataBucket(1, 1)>>
    /\ hist = <<NewHist(NoUser)>>

SpecFair == InitFair /\ [][Next]_vars /\ WF_vars(Body)

\* SpecSeq: one goroutine makes the calls one after the other, tracing them.
NextSeq ==
    \/ Tick
    \/ CallAllow(1)
    \/ CallAllowUser(1)
    \/ Body

SpecSeq == InitSeq /\ [][NextSeq]_vars

\* SpecLong: SpecSeq over the longer time span.
NextLong ==
    \/ TickLong
    \/ CallAllow(1)
    \/ CallAllowUser(1)
    \/ Body

SpecLong == InitSeq /\ [][NextLong]_vars

\* SpecLin: up to NumThreads goroutines at a time call Allow on one bucket,
\* over the longer time span, beside what a fused Allow makes of the same calls.
InitLin ==
    /\ tracing = FALSE
    /\ InitCommon
    /\ calls = EmptyBag
    /\ \E capacity \in 1..MaxCapacity, refillRate \in 1..MaxRate :
          /\ heap = <<NewRatataBucket(capacity, refillRate)>>
          /\ lin = LinStart(NewRatataBucket(capacity, refillRate))
    /\ hist = <<NewHist(NoUser)>>

NextLin ==
    \/ TickLong
    \/ CallAllow(NumThreads)
    \/ RFLock \/ RFAdd \/ RFClamp
    \/ ALLock \/ ALDec \/ ALUnlock

SpecLin == InitLin /\ [][NextLin]_vars

\* SpecDegenerate: NewRatataBucket takes any integers: a capacity or a
\* refillRate that is zero or negative.  One goroutine makes the calls (a panic
\* ends the program).
InitDegenerate ==
    /\ tracing = FALSE
    /\ lin = LinOff
    /\ InitCommon
    /\ calls = EmptyBag
    /\ \E capacity \in -MaxCapacity..MaxCapacity, refillRate \in -MaxRate..MaxRate :
          /\ (capacity <= 0 \/ refillRate <= 0)
          /\ heap = <<NewRatataBucket(capacity, refillRate)>>
    /\ hist = <<NewHist(NoUser)>>

SpecDegenerate == InitDegenerate /\ [][NextSeq]_vars

\* SpecTwo: the program has built two buckets, NewRatataBucket(1, 1) and one of
\* another capacity or refillRate, and goroutines call AllowUser on either.
InitTwo ==
    /\ tracing = FALSE
    /\ lin = LinOff
    /\ InitCommon
    /\ calls = EmptyBag
    /\ \E capacity \in 1..MaxCapacity, refillRate \in 1..MaxRate :
          /\ <<capacity, refillRate>> # <<1, 1>>
          /\ heap = <<NewRatataBucket(1, 1), NewRatataBucket(capacity, refillRate)>>
    /\ hist = <<NewHist(NoUser), NewHist(NoUser)>>

NextTwo ==
    \/ Tick
    \/ CallAllowUser(NumThreads)
    \/ Body

SpecTwo == InitTwo /\ [][NextTwo]_vars

\* ---- the README's main -----------------------------------------------------
\* main is the one goroutine
InitReadme ==
    /\ tracing = FALSE
    /\ lin = LinOff
    /\ InitCommon
    /\ calls = SetToBag({[NewFrame EXCEPT !.pc = "m_new"]})
    /\ heap = <<>>
    /\ hist = <<>>

\* bucket := ratata.NewRatataBucket(5, time.Second)
MainNew ==
    \E c \in InFlight :
        /\ c.pc = "m_new"
        /\ heap' = <<NewRatataBucket(ReadmeCapacity, Second)>>
        /\ hist' = <<NewHist(NoUser)>>
        /\ calls' = Go(c, [c EXCEPT !.pc = "m_loop"])
        /\ UNCHANGED <<clock, userBuckets, bucketMu, started, tracing, iter, out, lin>>

\* for i := 0; i < 10; i++
MainLoop ==
    \E c \in InFlight :
        /\ c.pc = "m_loop"
        /\ calls' = Go(c, [c EXCEPT !.pc = IF iter < ReadmeCalls THEN "m_call" ELSE "m_done"])
        /\ UNCHANGED <<clock, heap, userBuckets, bucketMu, hist, started, tracing, iter, out, lin>>

\* allowed := bucket.Allow()
MainCall ==
    \E c \in InFlight :
        /\ c.pc = "m_call"
        /\ started' = started + 1
        /\ calls' = Go(c, [NewFrame EXCEPT !.pc = "rf_lock", !.op = "Allow", !.rb = 1,
                                           !.self = 1, !.retpc = "m_print"])
        /\ UNCHANGED <<clock, heap, userBuckets, bucketMu, hist, tracing, iter, out, lin>>

\* if allowed { fmt.Println("Request allowed") } else { fmt.Println("Rate limit exceeded") }
MainPrint ==
    \E c \in InFlight :
        /\ c.pc = "m_print"
        /\ out' = Append(out, IF c.ret THEN "Request allowed" ELSE "Rate limit exceeded")
        /\ calls' = Go(c, [NewFrame EXCEPT !.pc = "m_sleep"])
        /\ UNCHANGED <<clock, heap, userBuckets, bucketMu, hist, started, tracing, iter, lin>>

\* time.Sleep(200 * time.Millisecond)
MainSleep ==
    \E c \in InFlight :
        /\ c.pc = "m_sleep"
        /\ IF c.wake = 0
           THEN calls' = Go(c, [c EXCEPT !.wake = clock + SleepTicks])
           ELSE /\ clock = c.wake
                /\ calls' = Go(c, [c EXCEPT !.pc = "m_inc", !.wake = 0])
        /\ UNCHANGED <<clock, heap, userBuckets, bucketMu, hist, started, tracing, iter, out, lin>>

\* the clock while main sleeps
MainTick ==
    \E c \in InFlight :
        /\ c.pc = "m_sleep"
        /\ clock < c.wake
        /\ clock' = clock + 1
        /\ UNCHANGED <<heap, userBuckets, bucketMu, calls, hist, started, tracing, iter, out, lin>>

\* i++
MainInc ==
    \E c \in InFlight :
        /\ c.pc = "m_inc"
        /\ iter' = iter + 1
        /\ calls' = Go(c, [c EXCEPT !.pc = "m_loop"])
        /\ UNCHANGED <<clock, heap, userBuckets, bucketMu, hist, started, out, tracing, lin>>

NextReadme ==
    \/ MainNew \/ MainLoop \/ MainCall \/ MainPrint \/ MainSleep \/ MainTick \/ MainInc
    \/ RFLock \/ RFAdd \/ RFClamp
    \/ ALLock \/ ALDec \/ ALUnlock

SpecReadme == InitReadme /\ [][NextReadme]_vars
\* ---- properties ------------------------------------------------------------
Addrs == 1..Len(heap)

Decided(a) == hist[a].nTrue + hist[a].nFalse

\* the positions of a goroutine after its refillRatata has returned
PostRefill == {"al_lock", "al_dec", "al_unlock"}

\* the buckets ever built for identity u, and the Allow decisions made on them
BucketsOf(u) == {a \in Addrs : hist[a].owner = u}

RECURSIVE DecidedIn(_)
DecidedIn(S) ==
    IF S = {} THEN 0
    ELSE LET a == CHOOSE x \in S : TRUE IN Decided(a) + DecidedIn(S \ {a})

FirstBuilt(u) == CHOOSE a \in BucketsOf(u) : \A x \in BucketsOf(u) : a <= x

\* the frames, before and after, of the goroutine that takes a step
Stepped ==
    {c \in BagToSet(calls) \cup BagToSet(calls') : CopiesIn(c, calls) # CopiesIn(c, calls')}

\* C1: whenever a bucket's lock is not held, 0 <= tokens <= capacity, for every
\* interleaving of Allow and AllowUser calls and every advance of the clock.
CapacityBound ==
    \A a \in Addrs :
        heap[a].mu = Unlocked => (0 <= heap[a].tokens /\ heap[a].tokens <= heap[a].capacity)

\* a refill that would have overfilled the bucket has returned and left it full
CapacityBoundWitness ==
    \E a \in Addrs :
        /\ heap[a].mu = Unlocked
        /\ hist[a].nTrue = 0
        /\ heap[a].lastRefill >= hist[a].at + 2 * heap[a].refillRate
        /\ heap[a].tokens = heap[a].capacity
        /\ \E c \in InFlight : c.op = "AllowUser" /\ c.pc # "idle"

\* C2: N racing Allow calls on one full bucket of capacity C < N, with no whole
\* refill interval elapsing: exactly C decide true and N - C decide false.
ConcurrencySafety ==
    \A a \in Templates :
        (clock - hist[a].at < heap[a].refillRate /\ heap[a].capacity < Decided(a))
            => /\ hist[a].nTrue = heap[a].capacity
               /\ hist[a].nFalse = Decided(a) - heap[a].capacity

\* a racing caller has been refused while another is between its refill and
\* its consume step
ConcurrencySafetyWitness ==
    \E c1, c2 \in InFlight :
        /\ c1.self \in Templates
        /\ c2.self = c1.self
        /\ c1.pc = "al_unlock"
        /\ ~c1.ret
        /\ c2.pc = "al_lock"
        /\ clock - hist[c1.self].at < heap[c1.self].refillRate
        /\ Decided(c1.self) > heap[c1.self].capacity

\* C3: on a fresh bucket of capacity C with no time elapsing, the k-th sequential
\* Allow returns true for k <= C and false for k = C + 1.
NoFreeTokens ==
    \A c \in InFlight :
        (c.pc = "al_unlock" /\ clock = hist[c.self].at)
            => c.ret = (Decided(c.self) <= heap[c.self].capacity)

\* the (C+1)-th call at the time of construction has been refused
NoFreeTokensWitness ==
    \E c \in InFlight :
        /\ c.pc = "al_unlock"
        /\ c.op = "Allow"
        /\ clock = hist[c.self].at
        /\ Decided(c.self) = heap[c.self].capacity + 1
        /\ ~c.ret

\* C4 as stated: a fresh bucket that waited k*R (k <= C) holds min(C, k) tokens
\* after the next refill.
RefillFreshMin ==
    \A c \in InFlight :
        LET a == c.self IN
        (/\ c.pc \in PostRefill
         /\ c.tokBefore = heap[a].capacity
         /\ c.lrBefore = hist[a].at
         /\ c.elapsed % heap[a].refillRate = 0
         /\ c.elapsed \div heap[a].refillRate <= heap[a].capacity)
            => c.tokAfter = Min(heap[a].capacity, c.elapsed \div heap[a].refillRate)

\* C4 amended: a bucket holding n tokens that waited k*R (k <= C) since lastRefill
\* holds min(C, n + k) tokens after the next refill; a fresh bucket holds C.
RefillCorrectness ==
    \A c \in InFlight :
        LET a == c.self IN
        (/\ c.pc \in PostRefill
         /\ c.elapsed % heap[a].refillRate = 0
         /\ c.elapsed \div heap[a].refillRate <= heap[a].capacity)
            => /\ c.tokAfter = Min(heap[a].capacity,
                                       c.tokBefore + c.elapsed \div heap[a].refillRate)
               /\ (c.tokBefore = heap[a].capacity => c.tokAfter = heap[a].capacity)

\* a fresh bucket was refilled after k*R, 1 <= k < C, and holds C tokens
RefillCorrectnessWitness ==
    \E c \in InFlight :
        LET a == c.self IN
        /\ c.pc \in PostRefill
        /\ c.tokBefore = heap[a].capacity
        /\ c.lrBefore = hist[a].at
        /\ c.elapsed = heap[a].refillRate
        /\ heap[a].capacity > 1
        /\ c.tokAfter = heap[a].capacity

\* C5: on an empty bucket with lastRefill t0, an Allow evaluated at t0 + R/2
\* credits nothing, returns false and leaves lastRefill at t0; the following
\* Allow, evaluated at t0 + R, credits exactly one token and returns true.
PartialCarryOver ==
    \A c \in InFlight :
        LET a == c.self IN
        /\ (/\ c.pc \in PostRefill
            /\ c.tokBefore = 0
            /\ 2 * c.elapsed = heap[a].refillRate)
              => /\ c.newTokens = 0
                 /\ c.tokAfter = 0
                 /\ c.lrAfter = c.lrBefore
                 /\ (c.pc = "al_unlock" => ~c.ret)
        /\ (/\ c.pc \in PostRefill
            /\ c.tokBefore = 0
            /\ 2 * (c.prevEval - c.lrBefore) = heap[a].refillRate
            /\ c.now = c.lrBefore + heap[a].refillRate)
              => /\ c.newTokens = 1
                 /\ c.tokAfter = 1
                 /\ (c.pc = "al_unlock" => c.ret)

\* the Allow at t0 + R that follows one at t0 + R/2 has returned true
PartialCarryOverWitness ==
    \E c \in InFlight :
        /\ c.pc = "al_unlock"
        /\ c.tokBefore = 0
        /\ 2 * (c.prevEval - c.lrBefore) = heap[c.self].refillRate
        /\ c.now = c.lrBefore + heap[c.self].refillRate
        /\ c.ret

\* C6: capacity 5, one token per second, ten Allow calls 200ms apart: the first
\* six are allowed (the sixth at 1.0s on the refilled token), the last four refused.
ReadmeScenario ==
    /\ \A i \in 1..Len(out) :
          out[i] = IF i <= 6 THEN "Request allowed" ELSE "Rate limit exceeded"
    /\ \A c \in InFlight :
          /\ c.pc \in {"m_call", "rf_lock"} => clock = iter * SleepTicks
          /\ c.pc = "m_done" => Len(out) = ReadmeCalls

\* main has made its ten calls
ReadmeScenarioWitness ==
    /\ \E c \in InFlight : c.pc = "m_done"
    /\ Len(out) = 10
    /\ out[6] = "Request allowed"
    /\ out[7] = "Rate limit exceeded"

\* C7: the Allow calls on a bucket that decided true never number more than
\* capacity + floor((t - creation) / refillRate), nor more than capacity plus the
\* tokens refills credited; every true decision takes exactly one token.
RateBound ==
    \A a \in Addrs :
        /\ hist[a].nTrue <= heap[a].capacity + (clock - hist[a].at) \div heap[a].refillRate
        /\ hist[a].nTrue <= heap[a].capacity + hist[a].credited
        /\ hist[a].credited <= (clock - hist[a].at) \div heap[a].refillRate
        /\ heap[a].tokens = heap[a].capacity + hist[a].credited - hist[a].nTrue

\* the bound is met after at least one refill interval, with two callers at work
RateBoundWitness ==
    \E a \in Addrs :
        /\ clock - hist[a].at >= heap[a].refillRate
        /\ hist[a].nTrue = heap[a].capacity + (clock - hist[a].at) \div heap[a].refillRate
        /\ \E c1, c2 \in InFlight : c1.pc # c2.pc /\ c1.self = a /\ c2.self = a

\* C8: no step of an AllowUser call for one identity changes the registry entry
\* or the bucket of another identity.
IsolationStep ==
    \A c \in Stepped, v \in Users :
        (c.op = "AllowUser" /\ c.userID # v)
            => /\ userBuckets'[v] = userBuckets[v]
               /\ (userBuckets[v] # Nil => heap'[userBuckets[v]] = heap[userBuckets[v]])

PerIdentityIsolation == [][IsolationStep]_vars

\* identity a has been refused while identity b's bucket exists and has refused nobody
PerIdentityIsolationWitness ==
    \E c \in InFlight :
        /\ c.pc = "al_unlock"
        /\ c.op = "AllowUser"
        /\ c.userID = "a"
        /\ ~c.ret
        /\ userBuckets["b"] # Nil
        /\ heap[userBuckets["b"]].tokens = heap[userBuckets["b"]].capacity - 1
        /\ hist[userBuckets["b"]].nFalse = 0

\* C9: with no whole refill interval elapsing since an identity was first seen,
\* its k-th AllowUser call returns true exactly when k <= capacity.
CumulativeBudget ==
    \A c \in InFlight :
        LET u == c.userID IN
        (/\ c.pc = "al_unlock" /\ c.op = "AllowUser"
         /\ clock - hist[FirstBuilt(u)].at < heap[FirstBuilt(u)].refillRate)
            => /\ c.ret = (DecidedIn(BucketsOf(u)) <= heap[FirstBuilt(u)].capacity)
               /\ c.self = userBuckets[u]

\* a (C+1)-th AllowUser call for one identity is about to return false
CumulativeBudgetWitness ==
    \E c \in InFlight :
        LET u == c.userID IN
        /\ c.pc = "al_unlock" /\ c.op = "AllowUser"
        /\ clock - hist[c.self].at < heap[c.self].refillRate
        /\ Decided(c.self) = heap[c.self].capacity + 1
        /\ ~c.ret

\* C10: the registry starts empty; an identity once mapped to a bucket stays
\* mapped to that bucket; at most one bucket is ever built per identity.
RegistryEmpty == \A u \in Users : userBuckets[u] = Nil

RegistryStep ==
    \A u \in Users : userBuckets[u] # Nil => userBuckets'[u] = userBuckets[u]

AtMostOneBucket == \A u \in Users : Cardinality(BucketsOf(u)) <= 1

RegistryStable == RegistryEmpty /\ [][RegistryStep]_vars /\ []AtMostOneBucket

\* one caller has built the bucket of a new identity while another caller with
\* the same identity waits for the registry lock
RegistryStableWitness ==
    \E c1, c2 \in InFlight :
        /\ c1.userID = c2.userID
        /\ c1.pc = "rf_lock"
        /\ c2.pc = "au_lock"
        /\ hist[userBuckets[c1.userID]].at = clock
        /\ Decided(userBuckets[c1.userID]) = 0

\* the frame, before its step, of the goroutine that takes a step
Leaving == {c \in BagToSet(calls) : CopiesIn(c, calls) > CopiesIn(c, calls')}

\* C11: the bucket of an identity is built in a step of an AllowUser call for
\* that identity, with the capacity and refillRate of the bucket the call was
\* made on; from then on every AllowUser call for the identity is served by that
\* bucket and its capacity and refillRate never change, whatever bucket later
\* calls are made on.
FirstSeenStep ==
    \A u \in Users :
        /\ (userBuckets[u] = Nil /\ userBuckets'[u] # Nil)
              => \E c \in Leaving :
                    /\ c.op = "AllowUser" /\ c.userID = u
                    /\ heap'[userBuckets'[u]].capacity = heap[c.rb].capacity
                    /\ heap'[userBuckets'[u]].refillRate = heap[c.rb].refillRate
        /\ userBuckets[u] # Nil
              => /\ userBuckets'[u] = userBuckets[u]
                 /\ heap'[userBuckets[u]].capacity = heap[userBuckets[u]].capacity
                 /\ heap'[userBuckets[u]].refillRate = heap[userBuckets[u]].refillRate

FirstSeenServed ==
    \A c \in InFlight :
        (c.op = "AllowUser" /\ c.pc \notin {"au_lock", "au_new"})
            => (userBuckets[c.userID] # Nil /\ c.self = userBuckets[c.userID])

FirstSeenWins == [][FirstSeenStep]_vars /\ []FirstSeenServed

\* a call made on a bucket of another capacity or refillRate than the identity's
\* bucket has been decided by the identity's bucket
FirstSeenWinsWitness ==
    \E c \in InFlight :
        /\ c.op = "AllowUser"
        /\ c.pc = "al_unlock"
        /\ Decided(c.self) >= 2
        /\ \/ heap[c.rb].capacity # heap[c.self].capacity
           \/ heap[c.rb].refillRate # heap[c.self].refillRate

\* C12: a bucket built with a capacity or a refillRate that is zero or negative
\* is accepted, and no Allow or AllowUser call on it ever panics: every call
\* goes on to return a boolean.
NeverFails == \A c \in InFlight : c.pc # "panic"

\* the positions of a goroutine inside, or waiting for, a bucket's critical sections
InBucket == {"rf_lock", "rf_add", "rf_clamp", "al_lock", "al_dec", "al_unlock"}

\* C13: AllowUser releases the registry lock before it calls Allow: whenever an
\* AllowUser call is inside or waiting for a bucket's critical section and the
\* registry lock is held, it is held by another call, one still in its
\* lookup/creation step.
RegistryLockReleased ==
    \A c \in InFlight :
        (c.op = "AllowUser" /\ c.pc \in InBucket /\ bucketMu = Locked)
            => \E d \in InFlight : d # c /\ d.op = "AllowUser" /\ d.pc = "au_new"

\* C14: elapsed time beyond whole refill intervals is kept across refills: as
\* long as the clamp has discarded nothing, the tokens credited to a bucket up to
\* its last refill evaluation are floor((lastEval - creation time) / refillRate).
RemainderPreserved ==
    \A a \in Addrs :
        (heap[a].mu = Unlocked /\ hist[a].lost = 0)
            => hist[a].credited = GoDiv(hist[a].lastEval - hist[a].at, heap[a].refillRate)

\* C16: no step of any interleaving of calls moves a bucket's lastRefill back.
LastRefillMonotone ==
    [][\A a \in Addrs : heap'[a].lastRefill >= heap[a].lastRefill]_vars

\* a refill has advanced lastRefill while a second caller is at work on the
\* same bucket
LastRefillMonotoneWitness ==
    \E a \in Addrs :
        /\ heap[a].lastRefill > hist[a].at
        /\ BagCardinality(calls) >= 2
        /\ \A c \in InFlight : c.self = a /\ c.pc \in InBucket

\* every held lock is held by a call in flight: a bucket's mutex by a call
\* inside one of that bucket's critical sections, the registry lock by an
\* AllowUser call past its Lock()
LocksHeldByCalls ==
    /\ \A a \in Addrs :
          heap[a].mu = Locked =>
              \E c \in InFlight :
                  c.self = a /\ c.pc \in {"rf_add", "rf_clamp", "al_dec", "al_unlock"}
    /\ bucketMu = Locked =>
          \E c \in InFlight : c.op = "AllowUser" /\ c.pc # "au_lock"

\* C17: no interleaving of Allow and AllowUser calls deadlocks (while a call is
\* in flight some call can take a step), every lock is released by the time
\* its call returns, and under fair scheduling the calls in flight all return.
AlwaysReturns ==
    /\ [](calls # EmptyBag => ENABLED Body)
    /\ []LocksHeldByCalls
    /\ (calls # EmptyBag) ~> (calls = EmptyBag)

\* Allow and AllowUser calls on template and identity buckets have returned,
\* having contended for the locks, and nothing is held
AlwaysReturnsWitness ==
    /\ calls = EmptyBag
    /\ started = MaxCalls
    /\ ~RegistryEmpty
    /\ \E a \in Templates : Decided(a) > 0
    /\ bucketMu = Unlocked
    /\ \A a \in Addrs : heap[a].mu = Unlocked

\* the frame, after its step, of the goroutine that takes a step
Arriving == {n \in BagToSet(calls') : CopiesIn(n, calls') > CopiesIn(n, calls)}

\* the consume step of a call: the check of tokens under the lock, then the
\* decrement
ConsumeStep ==
    \A c \in Leaving :
        LET b == heap[c.self]
            b1 == heap'[c.self]
        IN /\ c.pc = "al_lock" =>
                /\ b1.tokens = b.tokens
                /\ b1.lastRefill = b.lastRefill /\ b1.capacity = b.capacity
                /\ IF b.tokens > 0
                   THEN \A n \in Arriving : n.pc = "al_dec"
                   ELSE /\ b.tokens = 0
                        /\ \A n \in Arriving : n.pc = "al_unlock" /\ ~n.ret
           /\ c.pc = "al_dec" =>
                /\ b.tokens > 0
                /\ b1.tokens = b.tokens - 1
                /\ b1.lastRefill = b.lastRefill /\ b1.capacity = b.capacity
                /\ \A n \in Arriving : n.pc = "al_unlock" /\ n.ret

\* C18: the consume step of Allow returns true if and only if tokens > 0 when it
\* checks, and then takes exactly one token; when it returns false tokens stays
\* 0; it never changes lastRefill or capacity.
ExactlyOnceConsumption == [][ConsumeStep]_vars

\* a call has taken the last token of a bucket that has also refused a call
ExactlyOnceConsumptionWitness ==
    \E c \in InFlight :
        /\ c.pc = "al_unlock" /\ c.ret
        /\ heap[c.self].tokens = 0
        /\ hist[c.self].nFalse > 0

\* a step of an AllowUser call leaves the budget of the bucket it was called on
\* alone; a step of a direct Allow call leaves the registry and every
\* identity's bucket alone
FrameStep ==
    \A c \in Leaving :
        /\ c.op = "AllowUser" =>
              /\ heap'[c.rb].tokens = heap[c.rb].tokens
              /\ heap'[c.rb].lastRefill = heap[c.rb].lastRefill
        /\ c.op = "Allow" =>
              /\ userBuckets' = userBuckets
              /\ Len(heap') = Len(heap)
              /\ \A a \in Addrs \ Templates : heap'[a] = heap[a]

\* C19: AllowUser never changes tokens or lastRefill of the template bucket it
\* is called on, and a direct Allow on the template never changes the registry
\* or an identity's bucket.
BudgetsIndependent == [][FrameStep]_vars

\* direct Allow calls have taken tokens of the template and AllowUser calls
\* tokens of an identity's bucket, and the two buckets hold different numbers
\* of tokens
BudgetsIndependentWitness ==
    \E t \in Templates, a \in Addrs \ Templates :
        /\ hist[t].nTrue > 0
        /\ hist[a].nTrue > 0
        /\ heap[t].tokens # heap[a].tokens
        /\ calls = EmptyBag

\* the step of AllowUser that builds the bucket of a new identity builds it
\* full, with lastRefill the time of the step
NewBucketStep ==
    \A c \in Leaving :
        c.pc = "au_new" =>
            /\ Len(heap') = Len(heap) + 1
            /\ heap'[Len(heap')].tokens = heap[c.rb].capacity
            /\ heap'[Len(heap')].lastRefill = clock
            /\ userBuckets'[c.userID] = Len(heap')

\* the first decision on an identity's bucket is true
FirstCallAllowed ==
    \A c \in InFlight :
        (c.op = "AllowUser" /\ c.pc = "al_unlock" /\ Decided(c.self) = 1) => c.ret

\* C20: the bucket of a newly seen identity starts full with lastRefill its
\* creation time, whatever the template's tokens and lastRefill, and the
\* first AllowUser call for the identity returns true (the template's
\* capacity being at least 1).
NewIdentityStartsFull == [][NewBucketStep]_vars /\ []FirstCallAllowed

\* the first AllowUser call of an identity has returned true on a template that
\* has no token left and was last refilled before the identity was first seen
NewIdentityStartsFullWitness ==
    \E c \in InFlight :
        /\ c.op = "AllowUser" /\ c.pc = "al_unlock" /\ c.ret
        /\ Decided(c.self) = 1
        /\ heap[c.rb].tokens = 0
        /\ heap[c.rb].lastRefill < hist[c.self].at

\* C15: for every interleaving of concurrent Allow calls on one bucket, the
\* booleans returned so far, and tokens and lastRefill once every call has
\* returned, are ones the fused Allow can produce for the same calls, each
\* taking effect at some instant between its invocation and its return.
RefinesFusedAllow ==
    /\ lin.cfgs # {}
    /\ calls = EmptyBag =>
          \E o \in lin.cfgs :
              /\ o.b.tokens = heap[1].tokens
              /\ o.b.lastRefill = heap[1].lastRefill

\* ---- type invariant -------------------------------------------------------
TypeOK ==
    /\ clock \in Nat
    /\ Len(hist) = Len(heap)
    /\ \A u \in Users : userBuckets[u] \in 0..Len(heap)
    /\ bucketMu \in {Unlocked, Locked}
    /\ \A a \in 1..Len(heap) : heap[a].mu \in {Unlocked, Locked}
    /\ IsABag(calls)
    /\ BagCardinality(calls) <= NumThreads
====
